---------------------------- MODULE Spec2Model ----------------------------
(***************************************************************************)
(* abnconv.py: conversion of ABN AMRO CAMT.053 statement entries to QIF.   *)
(*                                                                         *)
(* Texts are Python strings.  A narrative (AddtlNtryInf) is a sequence of  *)
(* tokens, each a non-empty piece of text; the text is their join.  A      *)
(* token is a tag delimiter ("/NAME/"), a phrase one of the three          *)
(* non-SEPA regular expressions matches, or plain text that takes part in  *)
(* no match.  Offsets into the text are token indexes.                     *)
(***************************************************************************)
EXTENDS Integers, Sequences, FiniteSets, TLC

\* ------------------------------------------------------------------ bounds
MaxLen == 3        \* tokens of a narrative drawn for the classifier
MaxAmt == 1        \* largest magnitude of an <Amt> text
MaxEntries == 2    \* <Ntry> elements processed in one run

\* ------------------------------------------------------------------ values
\* Python's None: a value no text equals.
None == "<None>"

\* A regular expression's search that found nothing.
NoMatch == [re |-> None]

\* str(v) as "%s" formats it.
Str(v) == IF v = None THEN "None" ELSE v

RECURSIVE Join(_)
Join(toks) == IF toks = <<>> THEN "" ELSE Head(toks) \o Join(Tail(toks))

\* A float: sign bit and magnitude, so that 0.0 and -0.0 are two values.
Float(text) == [neg |-> FALSE, mag |-> text]
FloatNeg(a) == [neg |-> ~a.neg, mag |-> a.mag]
FloatEq(a, b) == a.mag = b.mag /\ (a.mag = 0 \/ a.neg = b.neg)
FloatStr(a) == (IF a.neg THEN "-" ELSE "") \o ToString(a.mag) \o ".0"

\* datetime.strftime of a day number, for the two formats used.
Strftime(date, fmt) ==
    IF fmt = "%Y%m%d" THEN "2024010" \o ToString(date)
    ELSE "2024/01/0" \o ToString(date)

\* ---------------------------------------------------------------- registry
\* The configured accounts: A has a display name, B falls back to its IBAN.
IbanA == "NL01A"
IbanB == "NL02B"
IbanX == "NL03X"
accounts == (IbanA :> "Alpha") @@ (IbanB :> IbanB)

_get_account(iban) == accounts[iban]

\* ------------------------------------------------------ regular expressions
SEPA_tags == {"TRTP", "CSID", "NAME", "MARF", "REMI", "IBAN", "BIC", "EREF"}
Marker(tag) == "/" \o tag \o "/"

\* SEPA_markers_re: the tag a delimiter token carries (group 1), or None.
SEPA_markers_re(tok) ==
    IF \E t \in SEPA_tags : Marker(t) = tok
    THEN CHOOSE t \in SEPA_tags : Marker(t) = tok
    ELSE None

\* SEPA_re = "/TRTP/.+": a TRTP delimiter followed by at least one character.
SEPA_re(info) ==
    IF \E i \in 1..Len(info) : info[i] = Marker("TRTP") /\ i < Len(info)
    THEN [re |-> "sepa"] ELSE NoMatch

BeaPhraseB == "BEA NR:1 02.01.24/12.34 SHOP,PAS9"
BeaPhraseG == "GEA NR:1 02.01.24/12.34 ATM,PAS9"
AbnPhrase == "ABN AMRO Bank N.V. Fee x"
SparenPhrase == "ACCOUNT BALANCED CREDIT INTEREST 1 For interest rates"

\* The first token of `info` in `phrases`, or 0.
FirstIn(info, phrases) ==
    IF \E i \in 1..Len(info) : info[i] \in phrases
    THEN CHOOSE i \in 1..Len(info) :
             info[i] \in phrases /\ \A j \in 1..(i - 1) : info[j] \notin phrases
    ELSE 0

\* BEA_re.search: groups subtype and payee of the first match.
BEA_re(info) ==
    LET i == FirstIn(info, {BeaPhraseB, BeaPhraseG}) IN
    IF i = 0 THEN NoMatch
    ELSE IF info[i] = BeaPhraseB THEN [re |-> "bea", subtype |-> "B", payee |-> " SHOP"]
    ELSE [re |-> "bea", subtype |-> "G", payee |-> " ATM"]

\* ABN_re.search: groups payee and memo.
ABN_re(info) ==
    IF FirstIn(info, {AbnPhrase}) = 0 THEN NoMatch
    ELSE [re |-> "abn", payee |-> "ABN AMRO Bank N.V.", memo |-> "Fee"]

\* SPAREN_re.search: group memo.
SPAREN_re(info) ==
    IF FirstIn(info, {SparenPhrase}) = 0 THEN NoMatch
    ELSE [re |-> "sparen", memo |-> "CREDIT INTEREST 1 "]

Search(type, info) ==
    CASE type = "bea" -> BEA_re(info)
      [] type = "sepa" -> SEPA_re(info)
      [] type = "abn" -> ABN_re(info)
      [] type = "sparen" -> SPAREN_re(info)

\* -------------------------------------------------------------------- Trsx
Trsx(account_iban) ==
    [source_iban |-> account_iban, dest_iban |-> None, type |-> None,
     date |-> 0, amount |-> Float(0), payee |-> None, memo |-> None,
     transaction_desc |-> None]

\* __eq__ with the comparison of transaction_desc left in.
Eq_with_desc(self, other) ==
    /\ self.source_iban = other.source_iban
    /\ self.dest_iban = other.dest_iban
    /\ self.type = other.type
    /\ self.date = other.date
    /\ FloatEq(self.amount, other.amount)
    /\ self.payee = other.payee
    /\ self.memo = other.memo
    /\ self.transaction_desc = other.transaction_desc

\* Trsx.__eq__ (transaction_desc is not compared).
Eq(self, other) ==
    /\ self.source_iban = other.source_iban
    /\ self.dest_iban = other.dest_iban
    /\ self.type = other.type
    /\ self.date = other.date
    /\ FloatEq(self.amount, other.amount)
    /\ self.payee = other.payee
    /\ self.memo = other.memo

\* Trsx.__hash__: the formatted text the hash is taken of.
Hash(self) ==
    Str(self.source_iban) \o "-" \o Str(self.dest_iban) \o "-"
        \o Strftime(self.date, "%Y%m%d") \o "-" \o FloatStr(self.amount)
        \o "/" \o Str(self.memo)

is_transfer_transaction(self) == self.dest_iban \in DOMAIN accounts

ValueError == [exc |-> "ValueError"]
KeyError == [exc |-> "KeyError"]
IsExc(v) == "exc" \in DOMAIN v

\* complementary, with the two accounts not swapped.
complementary_no_swap(self) ==
    IF ~is_transfer_transaction(self) THEN ValueError
    ELSE [self EXCEPT !.amount = FloatNeg(self.amount)]

\* complementary, with the amount copied instead of negated.
complementary_amount_copied(self) ==
    IF ~is_transfer_transaction(self) THEN ValueError
    ELSE [source_iban |-> self.dest_iban,
          dest_iban |-> self.source_iban,
          type |-> self.type,
          date |-> self.date,
          amount |-> self.amount,
          payee |-> self.payee,
          memo |-> self.memo,
          transaction_desc |-> self.transaction_desc]

complementary(self) ==
    IF ~is_transfer_transaction(self) THEN ValueError
    ELSE [source_iban |-> self.dest_iban,
          dest_iban |-> self.source_iban,
          type |-> self.type,
          date |-> self.date,
          amount |-> FloatNeg(self.amount),
          payee |-> self.payee,
          memo |-> self.memo,
          transaction_desc |-> self.transaction_desc]

nn(v) == IF v = None \/ v = "" THEN "" ELSE v

\* Trsx.get_qif_tx: qif_tpl_plain_tsx with its fields filled in.
get_qif_tx(self) ==
    [tpl |-> "!Type",
     type |-> self.type,
     date |-> Strftime(self.date, "%Y/%m/%d"),
     amount |-> FloatStr(self.amount),
     payee |-> nn(self.payee),
     memo |-> IF is_transfer_transaction(self) /\ self.memo = None
              THEN "Transfer" ELSE nn(self.memo),
     ledger |-> IF is_transfer_transaction(self)
                THEN "[" \o _get_account(self.dest_iban) \o "]" ELSE ""]

\* qif_account_tpl with its fields filled in.
qif_account_tpl(name, type) == [tpl |-> "!Account", name |-> name, type |-> type]

\* ----------------------------------------------------------- process_entry
\* The scan of find_sepa_field from token i on; start is the index of the last
\* requested delimiter seen (0: none yet).
RECURSIVE SepaScan(_, _, _, _)
SepaScan(info, field, i, start) ==
    IF i > Len(info) THEN None
    ELSE IF SEPA_markers_re(info[i]) = None THEN SepaScan(info, field, i + 1, start)
    ELSE IF SEPA_markers_re(info[i]) = field THEN SepaScan(info, field, i + 1, i)
    ELSE IF start # 0 THEN Join(SubSeq(info, start + 1, i - 1))
    ELSE SepaScan(info, field, i + 1, start)

find_sepa_field(info, field) ==
    IF SEPA_re(info) # NoMatch THEN SepaScan(info, field, 1, 0) ELSE None

\* The dict of _get_regex with sepa put first.
regex_order_sepa_first == <<"sepa", "bea", "abn", "sparen">>

regex_order == <<"bea", "sepa", "abn", "sparen">>

\* process_entry._get_regex: the first regular expression, in the dict's order,
\* that finds a match.
RECURSIVE GetRegexFrom(_, _)
GetRegexFrom(info, k) ==
    IF k > Len(regex_order) THEN <<None, NoMatch>>
    ELSE IF Search(regex_order[k], info) # NoMatch
         THEN <<regex_order[k], Search(regex_order[k], info)>>
    ELSE GetRegexFrom(info, k + 1)

_get_regex(info) == GetRegexFrom(info, 1)

\* elem: [ValDt, Amt, CdtDbtInd, AddtlNtryInf].
process_entry(account_iban, elem) ==
    LET info == elem.AddtlNtryInf
        amt == IF elem.CdtDbtInd = "DBIT" THEN FloatNeg(Float(elem.Amt))
               ELSE Float(elem.Amt)
        tsx == [Trsx(account_iban) EXCEPT !.date = elem.ValDt, !.amount = amt,
                                          !.transaction_desc = Join(info)]
        tx_type == _get_regex(info)[1]
        match == _get_regex(info)[2]
    IN  CASE tx_type = "bea" ->
               [tsx EXCEPT !.type = IF match.subtype = "B" THEN "Bank" ELSE "Cash",
                           !.payee = match.payee,
                           !.memo = Join(info)]
          [] tx_type = "sepa" ->
               [tsx EXCEPT !.type = "Bank",
                           !.payee = find_sepa_field(info, "NAME"),
                           !.memo = find_sepa_field(info, "REMI"),
                           !.dest_iban = find_sepa_field(info, "IBAN")]
          [] tx_type = "abn" ->
               [tsx EXCEPT !.type = "Bank", !.payee = match.payee, !.memo = match.memo]
          [] tx_type = "sparen" ->
               [tsx EXCEPT !.type = "Bank", !.payee = "ABN AMRO Bank N.V.",
                           !.memo = match.memo]
          [] OTHER -> ValueError

\* _trsx_list without the yield of the complement.
_trsx_list_no_complement(t) == <<t>>

\* _trsx_list: what the generator yields for the record of one entry.
_trsx_list(t) ==
    IF is_transfer_transaction(t) THEN <<t, complementary(t)>> ELSE <<t>>

\* -------------------------------------------------------------- QIFOutput
\* QIFOutput.accounts is a dict, which keeps insertion order: a sequence of
\* [key, list] pairs.
Keys(d) == {d[i].key : i \in 1..Len(d)}
IndexOf(d, k) == CHOOSE i \in 1..Len(d) : d[i].key = k
Lookup(d, k) == d[IndexOf(d, k)].list

QIFOutput ==
    [output_file |-> [mode |-> "unopened", content |-> <<>>],
     accounts |-> <<>>,
     _transaction_list |-> {},
     added |-> 0,
     skipped |-> 0]

\* QIFOutput.__enter__: open(path, 'w') leaves an empty file.
__enter__(self) == [self EXCEPT !.output_file = [mode |-> "w", content |-> <<>>]]

RECURSIVE Flatten(_)
Flatten(d) == IF d = <<>> THEN <<>> ELSE Head(d).list \o Flatten(Tail(d))

\* __exit__ writing the groups last to first.
RECURSIVE FlattenReversed(_)
FlattenReversed(d) == IF d = <<>> THEN <<>> ELSE FlattenReversed(Tail(d)) \o Head(d).list
__exit___reversed(self) ==
    [self EXCEPT !.output_file = [mode |-> "closed", content |-> FlattenReversed(self.accounts)]]

\* QIFOutput.__exit__: runs when the with block ends, by an exception too.
__exit__(self) ==
    [self EXCEPT !.output_file = [mode |-> "closed", content |-> Flatten(self.accounts)]]

\* transaction in self._transaction_list: equal hash, then __eq__.
Contains(set, transaction) ==
    \E s \in set : Hash(s) = Hash(transaction) /\ Eq(transaction, s)

\* QIFOutput._get_list: the object after the call and the exception it
\* raised, if any; the new key is stored before the account's name is looked up.
_get_list(self, account) ==
    IF account \in Keys(self.accounts) THEN [self |-> self, exc |-> None]
    ELSE LET created == [self EXCEPT !.accounts = Append(@, [key |-> account, list |-> <<>>])]
         IN  IF account \notin DOMAIN accounts
             THEN [self |-> created, exc |-> "KeyError"]
             ELSE [self |-> [created EXCEPT !.accounts[Len(created.accounts)].list =
                                 <<qif_account_tpl(_get_account(account), "Bank")>>],
                   exc |-> None]

\* __iadd__ that does not add the record to _transaction_list.
__iadd___not_registered(self, transaction) ==
    IF ~Contains(self._transaction_list, transaction)
    THEN LET got == _get_list(self, transaction.source_iban) IN
         IF got.exc # None THEN got
         ELSE [self |-> [got.self EXCEPT
                           !.accounts[IndexOf(got.self.accounts, transaction.source_iban)].list =
                               Append(@, get_qif_tx(transaction)),
                           !.added = @ + 1],
               exc |-> None]
    ELSE [self |-> [self EXCEPT !.skipped = @ + 1], exc |-> None]

\* __iadd__ that appends the block before it looks the record up.
__iadd___block_first(self, transaction) ==
    LET got == _get_list(self, transaction.source_iban) IN
    IF got.exc # None THEN got
    ELSE LET with == [got.self EXCEPT
                        !.accounts[IndexOf(got.self.accounts, transaction.source_iban)].list =
                            Append(@, get_qif_tx(transaction))]
         IN  IF ~Contains(self._transaction_list, transaction)
             THEN [self |-> [with EXCEPT !._transaction_list = @ \cup {transaction},
                                         !.added = @ + 1],
                   exc |-> None]
             ELSE [self |-> [with EXCEPT !.skipped = @ + 1], exc |-> None]

\* QIFOutput.__iadd__: the object after the call and the exception it raised.
__iadd__(self, transaction) ==
    IF ~Contains(self._transaction_list, transaction)
    THEN LET got == _get_list(self, transaction.source_iban) IN
         IF got.exc # None THEN got
         ELSE [self |-> [got.self EXCEPT
                           !.accounts[IndexOf(got.self.accounts, transaction.source_iban)].list =
                               Append(@, get_qif_tx(transaction)),
                           !._transaction_list = @ \cup {transaction},
                           !.added = @ + 1],
               exc |-> None]
    ELSE [self |-> [self EXCEPT !.skipped = @ + 1], exc |-> None]

\* ------------------------------------------------------------------ inputs
IBANs == {IbanA, IbanB, IbanX}
Dates == {1, 2}
Amts == 0..MaxAmt
Inds == {"CRDT", "DBIT"}

Elems(dates, amts, inds, narratives) ==
    [ValDt : dates, Amt : amts, CdtDbtInd : inds, AddtlNtryInf : narratives]

SepaTo(iban, payee) ==
    <<"/TRTP/", "SEPA", "/NAME/", payee, "/REMI/", "INV 42", "/IBAN/", iban, "/EREF/", "X">>

\* The narratives of the entries of a run: transfers to each registered account,
\* one of them under a second payee, a payment to an account that is not
\* registered, a card payment, and a text no regular expression matches.
SepaNarratives ==
    {SepaTo(IbanB, "J SMITH"), SepaTo(IbanA, "J SMITH"), SepaTo(IbanA, "K JONES"),
     SepaTo(IbanX, "J SMITH")}
RunNarratives == SepaNarratives \cup {<<BeaPhraseB>>, <<"UNKNOWN">>}

\* The entries a statement of a run may hold.
RunElems ==
    Elems({1}, {1}, {"DBIT"}, {SepaTo(IbanB, "J SMITH"), SepaTo(IbanX, "J SMITH"), <<BeaPhraseB>>})
    \cup Elems({1}, {1}, {"CRDT"}, {SepaTo(IbanA, "J SMITH"), SepaTo(IbanA, "K JONES"), <<"UNKNOWN">>})
    \cup Elems({1}, {0}, {"CRDT"}, {SepaTo(IbanB, "J SMITH"), SepaTo(IbanA, "J SMITH")})

\* The tokens of the narratives drawn for the classifier on its own.
Tokens ==
    {Marker("TRTP"), Marker("NAME"), Marker("REMI"), Marker("IBAN"), Marker("EREF"),
     IbanA, "x", BeaPhraseG, AbnPhrase, SparenPhrase}
Narratives == UNION {[1..n -> Tokens] : n \in 1..MaxLen}

\* ------------------------------------------------------------------- state
VARIABLES
    pc,            \* where the main block is
    out,           \* the QIFOutput object
    account_iban,  \* _trsx_list: the IBAN of the statement being read
    trsx,          \* _trsx_list: the record of the entry being processed
    stream,        \* history: what _trsx_list yielded, and what became of it
    elem,          \* the entry handed to process_entry
    ret            \* the last call of a function on its own, and its result

vars == <<pc, out, account_iban, trsx, stream, elem, ret>>

NoTrsx == Trsx(None)
NoElem == [ValDt |-> 0, Amt |-> 0, CdtDbtInd |-> None, AddtlNtryInf |-> <<>>]
NoCall == [fn |-> None]

Init ==
    /\ pc = "start"
    /\ out = QIFOutput
    /\ account_iban = None
    /\ trsx = NoTrsx
    /\ stream = <<>>
    /\ elem = NoElem
    /\ ret = NoCall

\* The entries process_entry has been called for.
Entries == Len(SelectSeq(stream, LAMBDA y : y.orig))

\* with QIFOutput(out_path) as out:
Enter ==
    /\ pc = "start"
    /\ out' = __enter__(out)
    /\ pc' = "files"
    /\ UNCHANGED <<account_iban, trsx, stream, elem, ret>>

\* for source_file in _all_files(): the next file, a statement of `iban` when
\* its name ends in xml; _trsx_list raises ValueError on any other name.
OpenFile(xml, iban) ==
    /\ pc = "files"
    /\ IF xml
       THEN /\ pc' = "entries"
            /\ account_iban' = iban
            /\ out' = out
       ELSE /\ pc' = "failed"
            /\ account_iban' = account_iban
            /\ out' = __exit__(out)
    /\ UNCHANGED <<trsx, stream, elem, ret>>

\* for elem in tree.iter("Ntry"): process_entry, yield trsx, out += trsx.
NextEntry(e) ==
    /\ pc = "entries"
    /\ Entries < MaxEntries
    /\ elem' = e
    /\ LET t == process_entry(account_iban, e) IN
       IF IsExc(t)
       THEN /\ pc' = "failed"
            /\ out' = __exit__(out)
            /\ UNCHANGED <<trsx, stream>>
       ELSE LET got == __iadd__(out, t) IN
            /\ trsx' = t
            /\ stream' = Append(stream,
                   [trsx |-> t, orig |-> TRUE,
                    outcome |-> IF got.exc # None THEN got.exc
                                ELSE IF got.self.added > out.added THEN "added"
                                ELSE "skipped"])
            /\ IF got.exc # None
               THEN pc' = "failed" /\ out' = __exit__(got.self)
               ELSE /\ out' = got.self
                    /\ pc' = IF Len(_trsx_list(t)) > 1 THEN "complement" ELSE "entries"
    /\ UNCHANGED <<account_iban, ret>>

\* yield trsx.complementary(), out += the complement.
YieldComplement ==
    /\ pc = "complement"
    /\ LET c == _trsx_list(trsx)[2]
           got == __iadd__(out, c) IN
       /\ stream' = Append(stream,
              [trsx |-> c, orig |-> FALSE,
               outcome |-> IF got.exc # None THEN got.exc
                           ELSE IF got.self.added > out.added THEN "added"
                           ELSE "skipped"])
       /\ IF got.exc # None
          THEN pc' = "failed" /\ out' = __exit__(got.self)
          ELSE pc' = "entries" /\ out' = got.self
    /\ UNCHANGED <<account_iban, trsx, elem, ret>>

\* The statement has no more entries.
EndFile ==
    /\ pc = "entries"
    /\ pc' = "files"
    /\ UNCHANGED <<out, account_iban, trsx, stream, elem, ret>>

\* No more files: the with block ends and __exit__ writes the document.
Finish ==
    /\ pc = "files"
    /\ out' = __exit__(out)
    /\ pc' = "done"
    /\ UNCHANGED <<account_iban, trsx, stream, elem, ret>>

Next ==
    \/ Enter
    \/ \E xml \in BOOLEAN, iban \in IBANs : OpenFile(xml, iban)
    \/ \E e \in RunElems : NextEntry(e)
    \/ YieldComplement
    \/ EndFile
    \/ Finish

Spec == Init /\ [][Next]_vars

\* ------------------------------------------------- the classifier on its own
IdleRun ==
    /\ pc = "call"
    /\ out = QIFOutput
    /\ stream = <<>>
    /\ ret = NoCall

InitClassify ==
    /\ IdleRun
    /\ account_iban \in {IbanA, IbanX}
    /\ elem \in Elems({1}, {MaxAmt}, Inds, Narratives)
    /\ trsx = NoTrsx

CallProcessEntry ==
    /\ pc = "call"
    /\ ret.fn = None
    /\ ret' = [fn |-> "process_entry", arg |-> None,
               val |-> process_entry(account_iban, elem)]
    /\ UNCHANGED <<pc, out, account_iban, trsx, stream, elem>>

CallFindSepaField(field) ==
    /\ pc = "call"
    /\ ret.fn = None
    /\ ret' = [fn |-> "find_sepa_field", arg |-> field,
               val |-> find_sepa_field(elem.AddtlNtryInf, field)]
    /\ UNCHANGED <<pc, out, account_iban, trsx, stream, elem>>

NextClassify ==
    \/ CallProcessEntry
    \/ \E field \in SEPA_tags : CallFindSepaField(field)

SpecClassify == InitClassify /\ [][NextClassify]_vars

\* ------------------------------------------------------- a Trsx on its own
\* The records process_entry makes of the entries of a run.
Records ==
    {process_entry(i, e) : i \in IBANs, e \in Elems(Dates, Amts, Inds, RunNarratives)}
        \ {ValueError}

InitTrsx ==
    /\ IdleRun
    /\ account_iban = None
    /\ elem = NoElem
    /\ trsx \in Records

CallComplementary ==
    /\ pc = "call"
    /\ ret.fn = None
    /\ ret' = [fn |-> "complementary", arg |-> None, val |-> complementary(trsx)]
    /\ UNCHANGED <<pc, out, account_iban, trsx, stream, elem>>

CallGetQifTx ==
    /\ pc = "call"
    /\ ret.fn = None
    /\ ret' = [fn |-> "get_qif_tx", arg |-> None, val |-> get_qif_tx(trsx)]
    /\ UNCHANGED <<pc, out, account_iban, trsx, stream, elem>>

NextTrsx == CallComplementary \/ CallGetQifTx

SpecTrsx == InitTrsx /\ [][NextTrsx]_vars


\* ------------------------------------------------------------------ claims
TxBlocks(list) == SelectSeq(list, LAMBDA b : b.tpl = "!Type")
Group(a) == IF a \in Keys(out.accounts) THEN Lookup(out.accounts, a) ELSE <<>>

\* The records accepted so far, in the order they were accepted.
Added == SelectSeq(stream, LAMBDA y : y.outcome = "added")
AddedOf(a) == SelectSeq(Added, LAMBDA y : y.trsx.source_iban = a)

\* C1 as claimed: the complement of every transfer record t is a transfer, has
\* the negated amount, and its own complement equals t.
C1_ComplementOfAnyTransfer ==
    (ret.fn = "complementary" /\ is_transfer_transaction(trsx)) =>
        /\ ~IsExc(ret.val)
        /\ is_transfer_transaction(ret.val)
        /\ FloatEq(ret.val.amount, FloatNeg(trsx.amount))
        /\ ~IsExc(complementary(ret.val))
        /\ Eq(complementary(ret.val), trsx)

\* C1 as amended: the same, for the transfer records whose source_iban is a
\* key of the registry too.
C1_ComplementInvolution ==
    (/\ ret.fn = "complementary"
     /\ is_transfer_transaction(trsx)
     /\ trsx.source_iban \in DOMAIN accounts) =>
        /\ ~IsExc(ret.val)
        /\ is_transfer_transaction(ret.val)
        /\ FloatEq(ret.val.amount, FloatNeg(trsx.amount))
        /\ ~IsExc(complementary(ret.val))
        /\ Eq(complementary(ret.val), trsx)

C1_Witness ==
    /\ ret.fn = "complementary"
    /\ is_transfer_transaction(trsx)
    /\ trsx.source_iban \in DOMAIN accounts
    /\ trsx.source_iban # trsx.dest_iban
    /\ trsx.amount.mag > 0
    /\ ret.val.source_iban = trsx.dest_iban

\* The record the step hands to out += (the stream grows by it).
Handed == stream'[Len(stream')].trsx
IsAddStep == Len(stream') = Len(stream) + 1
SkipsIt ==
    /\ out'.skipped = out.skipped + 1
    /\ out'.added = out.added
    /\ out'.accounts = out.accounts
    /\ out'._transaction_list = out._transaction_list

Originals == SelectSeq(stream, LAMBDA y : y.orig)
TwoStatementTransfer ==
    /\ pc = "done"
    /\ Len(Originals) = 2
    /\ LET a == Originals[1].trsx
           b == Originals[2].trsx
       IN  /\ a.source_iban \in DOMAIN accounts
           /\ b.source_iban \in DOMAIN accounts
           /\ a.source_iban # b.source_iban
           /\ a.dest_iban = b.source_iban
           /\ b.dest_iban = a.source_iban
           /\ a.date = b.date
           /\ a.memo = b.memo
           /\ FloatEq(b.amount, FloatNeg(a.amount))
TwoBlocksTwoSkipped ==
    /\ \A k \in Keys(out.accounts) : Len(TxBlocks(Group(k))) = 1
    /\ Keys(out.accounts) = {Originals[1].trsx.source_iban, Originals[2].trsx.source_iban}
    /\ out.added = 2
    /\ out.skipped = 2

C4_AllOrNothing == pc = "failed" => out.output_file.content = <<>>

\* C5: the transaction blocks of each account's sequence are the blocks of the
\* accepted records of that source account, one each, in the order accepted;
\* the accepted records are those of the set; a skipped record has no block.
Render(items) == [i \in 1..Len(items) |-> get_qif_tx(items[i].trsx)]
C5_RoundTripGrouping ==
    /\ \A a \in IBANs \cup Keys(out.accounts) : TxBlocks(Group(a)) = Render(AddedOf(a))
    /\ out._transaction_list = {Added[i].trsx : i \in 1..Len(Added)}
    /\ out.added = Len(Added)
    /\ \A i \in 1..Len(stream) :
          stream[i].outcome = "skipped" =>
              \E j \in 1..(i - 1) : /\ stream[j].outcome = "added"
                                    /\ Eq(stream[i].trsx, stream[j].trsx)

C5_Witness ==
    /\ out.skipped > 0
    /\ Len(out.accounts) = 2
    /\ out.added = 2
    /\ \A k \in Keys(out.accounts) : Len(TxBlocks(Group(k))) = 1

\* The source accounts of `items` in the order each first occurs.
RECURSIVE FirstSeen(_, _)
FirstSeen(items, seen) ==
    IF items = <<>> THEN <<>>
    ELSE LET a == Head(items).trsx.source_iban IN
         IF a \in seen THEN FirstSeen(Tail(items), seen)
         ELSE <<a>> \o FirstSeen(Tail(items), seen \cup {a})

\* The document the claim describes: per account, in the order of first
\* acceptance, one header and then the account's blocks in the order accepted.
RECURSIVE DocOf(_)
DocOf(order) ==
    IF order = <<>> THEN <<>>
    ELSE <<[tpl |-> "!Account", name |-> accounts[Head(order)], type |-> "Bank"]>>
            \o Render(AddedOf(Head(order))) \o DocOf(Tail(order))

\* C8: the emitted document lists the account groups in the order of each
\* account's first accepted record, each group one header followed by the
\* account's blocks in the order accepted; no header without an accepted record.
C8_FinalizeOrdering ==
    out.output_file.mode = "closed" =>
        out.output_file.content = DocOf(FirstSeen(Added, {}))

\* A document of two groups, the first of which got a block after the second
\* group was begun.
C8_Witness ==
    /\ pc = "done"
    /\ Len(Added) = 3
    /\ Added[1].trsx.source_iban = Added[3].trsx.source_iban
    /\ Added[1].trsx.source_iban # Added[2].trsx.source_iban
    /\ Len(out.output_file.content) = 5

\* The block of the accepted record stream[i].
BlockOf(i) ==
    LET a == stream[i].trsx.source_iban
        n == Cardinality({j \in 1..i : stream[j].outcome = "added"
                                        /\ stream[j].trsx.source_iban = a})
    IN  TxBlocks(Group(a))[n]

\* C9: a classified record whose counter account is a registry key is followed
\* at once by its complement (source and counter account swapped, amount
\* negated, the rest copied); any other record is yielded alone, and when its
\* counter account is present but not registered it is accepted without an
\* error and its block carries no category label.
C9_TransferResolution ==
    \A i \in 1..Len(stream) :
        LET t == stream[i].trsx IN
        IF stream[i].orig
        THEN IF t.dest_iban # None /\ t.dest_iban \in DOMAIN accounts
             THEN /\ i = Len(stream) => pc \in {"complement", "failed"}
                  /\ i < Len(stream) =>
                        /\ ~stream[i + 1].orig
                        /\ stream[i + 1].trsx =
                               [t EXCEPT !.source_iban = t.dest_iban,
                                         !.dest_iban = t.source_iban,
                                         !.amount = FloatNeg(t.amount)]
             ELSE /\ i = Len(stream) => pc # "complement"
                  /\ i < Len(stream) => stream[i + 1].orig
                  /\ (t.dest_iban # None /\ t.source_iban \in DOMAIN accounts) =>
                        /\ stream[i].outcome \in {"added", "skipped"}
                        /\ stream[i].outcome = "added" => BlockOf(i).ledger = ""
        ELSE i > 1 /\ stream[i - 1].orig

C9_Witness ==
    /\ Len(stream) = 3
    /\ stream[1].trsx.dest_iban = IbanX
    /\ stream[1].outcome = "added"
    /\ stream[2].orig /\ stream[2].trsx.dest_iban = IbanB
    /\ ~stream[3].orig /\ stream[3].trsx.source_iban = IbanB

\* C10: when no entry is half processed and none has failed, the accepted
\* records hold, for each accepted transfer, a record equal to its complement.
C10_DoubleEntryClosure ==
    pc \in {"entries", "files", "done"} =>
        \A t \in out._transaction_list :
            t.dest_iban \in DOMAIN accounts =>
                \E s \in out._transaction_list :
                    /\ s.source_iban = t.dest_iban
                    /\ s.dest_iban = t.source_iban
                    /\ s.type = t.type
                    /\ s.date = t.date
                    /\ FloatEq(s.amount, FloatNeg(t.amount))
                    /\ s.payee = t.payee
                    /\ s.memo = t.memo

\* Both sides of a transfer were read and the second side's records skipped.
C10_Witness ==
    /\ pc = "done"
    /\ out.skipped = 2
    /\ out.added = 2
    /\ \E t \in out._transaction_list : t.source_iban = IbanA /\ t.dest_iban = IbanB
    /\ \E t \in out._transaction_list : t.source_iban = IbanB /\ t.dest_iban = IbanA

\* The delimiter tokens of a narrative, and whether it is a run of /TAG/value.
MarkerAt(info, i) == SEPA_markers_re(info[i]) # None
Structured(info) ==
    /\ MarkerAt(info, 1)
    /\ \E i \in 1..(Len(info) - 1) : info[i] = "/TRTP/"

\* The text from after delimiter i to the next delimiter, or to the end.
ValueAfter(info, i) ==
    LET later == {j \in (i + 1)..Len(info) : MarkerAt(info, j)}
        stop == IF later = {} THEN Len(info) + 1
                ELSE CHOOSE j \in later : \A k \in later : j <= k
    IN  Join(SubSeq(info, i + 1, stop - 1))

\* C6 as claimed: for a structured-transfer narrative, the extraction of a tag
\* is absent only if the tag never occurs, and else is the text between one of
\* the tag's delimiters and the delimiter after it (the end of the narrative
\* for a last delimiter).
C6_FieldExtraction ==
    (ret.fn = "find_sepa_field" /\ Structured(elem.AddtlNtryInf)) =>
        LET info == elem.AddtlNtryInf
            at == {i \in 1..Len(info) : info[i] = "/" \o ret.arg \o "/"}
        IN  IF at = {} THEN ret.val = None
            ELSE ret.val # None /\ \E i \in at : ret.val = ValueAfter(info, i)

\* The rule of each grammar, as the classifier's table states it.
Matches(g, info) ==
    CASE g = "cash/card" -> \E i \in 1..Len(info) : info[i] \in {BeaPhraseB, BeaPhraseG}
      [] g = "structured-transfer" -> \E i \in 1..(Len(info) - 1) : info[i] = "/TRTP/"
      [] g = "institution-notice" -> \E i \in 1..Len(info) : info[i] = AbnPhrase
      [] g = "balanced-interest" -> \E i \in 1..Len(info) : info[i] = SparenPhrase
Priority == <<"cash/card", "structured-transfer", "institution-notice", "balanced-interest">>
FirstMatching(info) ==
    LET hits == {k \in 1..Len(Priority) : Matches(Priority[k], info)} IN
    IF hits = {} THEN None ELSE Priority[CHOOSE k \in hits : \A h \in hits : k <= h]

\* C7: process_entry fails when no grammar matches, and else fills the record
\* by the rule of the first matching grammar in the order cash/card,
\* structured-transfer, institution-notice, balanced-interest; only a
\* structured-transfer record has a counter account.
C7_ClassifierPriority ==
    ret.fn = "process_entry" =>
        LET info == elem.AddtlNtryInf
            g == FirstMatching(info)
            v == ret.val
        IN  CASE g = None -> v = [exc |-> "ValueError"]
              [] g = "cash/card" ->
                    /\ ~IsExc(v)
                    /\ v.type \in {"Bank", "Cash"}
                    /\ v.payee \in {" SHOP", " ATM"}
                    /\ v.memo = Join(info)
                    /\ v.dest_iban = None
              [] g = "structured-transfer" ->
                    /\ ~IsExc(v)
                    /\ v.type = "Bank"
                    /\ v.payee = find_sepa_field(info, "NAME")
                    /\ v.memo = find_sepa_field(info, "REMI")
                    /\ v.dest_iban = find_sepa_field(info, "IBAN")
              [] g = "institution-notice" ->
                    /\ ~IsExc(v)
                    /\ v.type = "Bank"
                    /\ v.payee = "ABN AMRO Bank N.V."
                    /\ v.memo = "Fee"
                    /\ v.dest_iban = None
              [] g = "balanced-interest" ->
                    /\ ~IsExc(v)
                    /\ v.type = "Bank"
                    /\ v.payee = "ABN AMRO Bank N.V."
                    /\ v.memo = "CREDIT INTEREST 1 "
                    /\ v.dest_iban = None

\* A narrative that a card payment and the structured-transfer grammar with an
\* IBAN field both match was classified as the card payment.
C7_Witness ==
    /\ ret.fn = "process_entry"
    /\ Matches("cash/card", elem.AddtlNtryInf)
    /\ Matches("structured-transfer", elem.AddtlNtryInf)
    /\ ret.val.type = "Cash"
    /\ ret.val.dest_iban = None

=============================================================================
